---- MODULE Spec2Model ----
(***************************************************************************)
(* ISO14443-4 block transceiver of the reader firmware                     *)
(* (firmware/application/src/rfid/reader/hf/iso14443_4_transceiver.c).     *)
(*                                                                         *)
(* Bytes are integers 0..255, C arrays are sequences read through At (C    *)
(* indices, from 0).  One call of iso14443_4_transceive is an entry step   *)
(* (lines 13-28) followed by one step per pass of the while(1) loop        *)
(* (lines 29-78).                                                          *)
(*                                                                         *)
(* Two specifications share every definition but the entry step:           *)
(*   Spec          the function as the source has it: the built I-block    *)
(*                 is never handed to pcd_14a_reader_bytes_transfer, the   *)
(*                 loop is entered with rx_bits = 0 and status             *)
(*                 uninitialised (any byte);                               *)
(*   SpecExchanged the entry step followed by the exchange of the built    *)
(*                 frame that section 4.1 step 2 of the specification      *)
(*                 describes and the source lacks; the loop body is the    *)
(*                 source's.                                               *)
(***************************************************************************)
EXTENDS Integers, Sequences, FiniteSets, TLC

VARIABLES
    g_pcb_block_num, \* static uint8_t g_pcb_block_num
    pc,              \* "idle": no call in flight; "loop": at the head of while(1);
                     \* "done": at a return statement
    tx_data,         \* argument tx_data[0..tx_len-1] of the call
    max_rx_len,      \* argument max_rx_len of the call
    buffer,          \* local buffer[]: the bytes last written to it
    rx_bits,         \* local rx_bits
    status,          \* local status
    wtx_count,       \* local wtx_count
    rx_data,         \* the caller's rx_data buffer
    rx_len,          \* the caller's *rx_len
    ret,             \* value the call returns: "none" (not yet), "true", "false"
    ret_line,        \* source line of the return statement reached, 0 if none
    bn0,             \* history: g_pcb_block_num when the call was entered
    out_writes,      \* history: writes to rx_data / *rx_len made by the call
    iblock_tx,       \* history: the I-block frame the call transmitted, <<>> if none
    n_iblock_tx,     \* history: transmissions of the I-block frame in the call
    last_tx,         \* history: the frame last handed to the raw exchange in the call
    n_ack_tx,        \* history: WTX acknowledgement frames transmitted in the call
    last_ok_bit,     \* history: sequence bit of the last successful exchange since reset, -1 if none
    since_reset,     \* history: "boot" at start, "reset" after a reset, "first" from the
                     \* entry of the first call after a reset, "later" from any other entry
    noted,           \* the caller's note of one failed call: its kind and the result it got
    hex_pc,          \* hex_to_str: "idle", "loop" (at the for test) or "done" (at the return)
    hex_data,        \* hex_to_str: argument data, as the seed of the bytes it points to
    hex_arg_len,     \* hex_to_str: argument len as the caller passed it
    hex_len,         \* hex_to_str: len as the function holds it
    hex_i,           \* hex_to_str: loop index i
    hexstr,          \* hex_to_str: static char hexstr[513], as character codes
    hex_oob,         \* history: a write of hex_to_str fell outside hexstr
    hex_calls        \* history: calls of hex_to_str made so far

\* the transceiver's variables
tx_vars == <<g_pcb_block_num, pc, tx_data, max_rx_len, buffer, rx_bits, status,
             wtx_count, rx_data, rx_len, ret, ret_line, bn0, out_writes,
             iblock_tx, n_iblock_tx, last_tx, n_ack_tx, last_ok_bit, since_reset>>

\* the variables of hex_to_str
hex_vars == <<hex_pc, hex_data, hex_arg_len, hex_len, hex_i, hexstr, hex_oob,
              hex_calls>>

VARIABLES
    g_usb_led_marquee_enable, \* extern bool g_usb_led_marquee_enable
    ledblink1_step,    \* static uint8_t ledblink1_step
    ledblink6_step,    \* static uint8_t ledblink6_step
    ledblink6_color,   \* static uint8_t ledblink6_color
    light_level,       \* ledblink6: static int16_t light_level
    startled,          \* ledblink1: static uint8_t startled
    setled,            \* ledblink1: static uint8_t setled
    callback_waiting6, \* volatile bool callback_waiting6
    callback_waiting,  \* volatile bool callback_waiting (the flag of ledblink3)
    timer,             \* milliseconds on the autotimer since bsp_set_timer(timer, 0)
    pwm0_ins,          \* PWM instance 1: [state, handler] of the driver
    mq_started,        \* history: the last call started a playback on pwm0_ins
    fresh_finished     \* history: a finished event was raised since the last playback
                       \* started with ledblink6_pwm_callback as handler

\* the variables of the marquee animations
mq_vars == <<g_usb_led_marquee_enable, ledblink1_step, ledblink6_step,
             ledblink6_color, light_level, startled, setled, callback_waiting6,
             callback_waiting, timer, pwm0_ins, mq_started, fresh_finished>>

VARIABLES
    ledblink5_pc,      \* where the call of ledblink5 is: "idle", "loop" or "done"
    ledblink5_color,   \* ledblink5: uint8_t color
    ledblink5_start,   \* ledblink5: uint8_t start
    ledblink5_stop,    \* ledblink5: uint8_t stop
    ledblink5_setled,  \* ledblink5: uint8_t setled
    ledblink5_lit      \* history: the indices into led_pins the call has lit, in order

\* the variables of ledblink5
b5_vars == <<ledblink5_pc, ledblink5_color, ledblink5_start, ledblink5_stop,
             ledblink5_setled, ledblink5_lit>>

VARIABLES
    idle_elapsed,      \* milliseconds from last_update to the app timer's count
    hue,               \* rgb_idle_cycle_step: static uint16_t hue
    heartbeat_phase,   \* rgb_idle_cycle_step: static uint8_t heartbeat_phase
    rgb_pwm_idle_initialized, \* static uint8_t rgb_pwm_idle_initialized
    pwm_instance2,     \* PWM instance 2, behind both pwm_rgb_idle and pwm_rgb
    rgb_idle_sequ_val, \* static nrf_pwm_values_individual_t rgb_idle_sequ_val
    led_on,            \* level of each pin of hw_get_led_array()
    idle_slot,         \* history: the slot the last call polled
    idle_ret,          \* history: what the last rgb_idle_cycle_step call returned
    heartbeat_count,   \* history: heartbeat_count of the last updating call
    pwm2_faults        \* history: misuse of instance 2 by the last call

\* the variables of the idle animation and the bootup animation
idle_vars == <<idle_elapsed, hue, heartbeat_phase, rgb_pwm_idle_initialized,
               pwm_instance2, rgb_idle_sequ_val, led_on, idle_slot, idle_ret,
               heartbeat_count, pwm2_faults>>

VARIABLES
    build_pc,          \* the statement of the frame construction reached
    build_tx_len,      \* iso14443_4_transceive: uint16_t tx_len
    build_top,         \* history: the highest index of buffer written, -1 for none
    frame_len          \* iso14443_4_transceive: uint16_t frame_len

\* the variables of the frame construction, followed index by index
build_vars == <<build_pc, build_tx_len, build_top, frame_len>>

VARIABLES
    conv_pc,           \* the statement reached in num_to_bytes / bytes_to_num
    conv_n,            \* the caller's n, as four 16-bit limbs, lowest first
    conv_len,          \* the caller's len
    ntb_n,             \* num_to_bytes: uint64_t n
    ntb_len,           \* num_to_bytes: uint8_t len
    dest,              \* the caller's byte array behind dest and src
    dest_written,      \* history: the indices of dest that num_to_bytes wrote
    btn_src,           \* bytes_to_num: src, as an index into the array
    btn_len,           \* bytes_to_num: uint8_t len
    btn_num            \* bytes_to_num: uint64_t num

\* the variables of num_to_bytes and bytes_to_num
conv_vars == <<conv_pc, conv_n, conv_len, ntb_n, ntb_len, dest, dest_written,
               btn_src, btn_len, btn_num>>

\* the variables of the units modelled after the marquee animations
rest_vars == <<b5_vars, idle_vars, build_vars, conv_vars>>

\* the variables of the functions outside the transceiver and hex_to_str
more_vars == <<mq_vars, rest_vars>>

vars == <<tx_vars, noted, hex_vars, more_vars>>

----------------------------------------------------------------------------
(* Bounds of the model *)

\* longest payload a caller passes (tx_len)
MaxTxLen == 1
\* largest max_rx_len a caller passes, and the size of the caller's rx_data
MaxRxLen == 2

\* payload bytes callers send: prefixes of one APDU-like pattern
TxPattern == <<162, 0, 164, 4, 0>>

Min(a, b) == IF a < b THEN a ELSE b

TxPayloads == {SubSeq(TxPattern, 1, n) : n \in 0..Min(MaxTxLen, Len(TxPattern))}

\* waiting-time multipliers the tag asks for
Multipliers == {2, 255}

Byte == 0..255

----------------------------------------------------------------------------
(* C operators on unsigned integers *)

RECURSIVE BitAnd(_, _)
BitAnd(a, b) ==
    IF a = 0 \/ b = 0 THEN 0
    ELSE (a % 2) * (b % 2) + 2 * BitAnd(a \div 2, b \div 2)

RECURSIVE BitXor(_, _)
BitXor(a, b) ==
    IF a = 0 THEN b
    ELSE IF b = 0 THEN a
    ELSE ((a + b) % 2) + 2 * BitXor(a \div 2, b \div 2)

RECURSIVE BitOr(_, _)
BitOr(a, b) ==
    IF a = 0 THEN b
    ELSE IF b = 0 THEN a
    ELSE (IF a % 2 = 1 \/ b % 2 = 1 THEN 1 ELSE 0) + 2 * BitOr(a \div 2, b \div 2)

\* buf[i] with the C index i (from 0)
At(buf, i) == buf[i + 1]

----------------------------------------------------------------------------
(* CRC helper (crc_14a_calculate, crc_14a_append): ISO14443-A CRC_A *)

\* one byte folded into the 16-bit CRC register
UpdateCrc14a(crc, b) ==
    LET b1 == BitXor(b, crc % 256)
        b2 == BitXor(b1, (b1 * 16) % 256)
    IN  BitXor(BitXor(BitXor(crc \div 256, b2 * 256), b2 * 8), b2 \div 16)

RECURSIVE Crc14aFold(_, _, _)
Crc14aFold(crc, data, len) ==
    IF len = 0 THEN crc
    ELSE UpdateCrc14a(Crc14aFold(crc, data, len - 1), data[len])

\* crc_14a_calculate(data, len, out): <<out[0], out[1]>>, low byte first
crc_14a_calculate(data, len) ==
    LET crc == Crc14aFold(25443, data, len)
    IN  <<crc % 256, crc \div 256>>

\* crc_14a_append(data, len): data[len], data[len+1] := CRC of data[0..len-1]
crc_14a_append(data, len) ==
    SubSeq(data, 1, len) \o crc_14a_calculate(data, len)

----------------------------------------------------------------------------
(* Raw exchange primitive pcd_14a_reader_bytes_transfer: one blocking        *)
(* transmit-then-receive cycle.  What the tag answers is its own choice, so  *)
(* a result is any of ExchangeResults: the status, the number of bits        *)
(* received and the bytes written to the receive buffer.                     *)

STATUS_HF_TAG_OK == 0

\* body followed by its CRC_A trailer
Frame(body) == crc_14a_append(body, Len(body))

\* frame with the low bit of the byte at C index i flipped
Corrupt(frame, i) == [frame EXCEPT ![i + 1] = BitXor(@, 1)]

\* CRC-valid frames: I-blocks (PCB 0x02, 0x03, 0x13), S(WTX) requests 0xF2,
\* S(WTX) PCB without multiplier, 0xB2 (top bits 10), S(DESELECT) 0xC2,
\* R(ACK) 0xA2, 0x72 (top bits 01)
TagFrames ==
    {Frame(<<2>>), Frame(<<2, 144, 0>>), Frame(<<3, 165>>), Frame(<<19, 1, 2, 3>>),
     Frame(<<242>>), Frame(<<178, 2>>), Frame(<<194>>), Frame(<<162>>),
     Frame(<<114, 2>>)}
    \cup {Frame(<<242, m>>) : m \in Multipliers}

\* frames whose trailer is not the CRC of the bytes before it
BadCrcFrames ==
    {Corrupt(Frame(<<2, 144, 0>>), 3), Corrupt(Frame(<<2, 144, 0>>), 4),
     Corrupt(Frame(<<242, 2>>), 0)}

Received(st, bits, data) == [status |-> st, bits |-> bits, data |-> data]

ExchangeResults ==
    {Received(STATUS_HF_TAG_OK, 8 * Len(f), f) : f \in TagFrames \cup BadCrcFrames}
    \cup {Received(STATUS_HF_TAG_OK, 0, <<>>),
          Received(STATUS_HF_TAG_OK, 23, <<2, 236, 114>>),
          Received(STATUS_HF_TAG_OK, 44, Frame(<<2, 144, 0>>) \o <<15>>),
          Received(1, 40, Frame(<<2, 144, 0>>))}

----------------------------------------------------------------------------
(* iso14443_4_reset_block_num *)

\* mutant: the reset leaves the block number as it is
reset_keeps_block_num ==
    /\ pc = "idle"
    /\ last_ok_bit' = -1
    /\ since_reset' = "reset"
    /\ bn0' = g_pcb_block_num
    /\ UNCHANGED <<g_pcb_block_num, pc, tx_data, max_rx_len, buffer, rx_bits,
                   status, wtx_count, rx_data, rx_len, ret, ret_line,
                   out_writes, iblock_tx, n_iblock_tx, last_tx, n_ack_tx,
                   noted, hex_vars, more_vars>>

iso14443_4_reset_block_num ==
    /\ pc = "idle"
    /\ g_pcb_block_num' = 0
    /\ bn0' = 0
    /\ last_ok_bit' = -1
    /\ since_reset' = "reset"
    /\ UNCHANGED <<pc, tx_data, max_rx_len, buffer, rx_bits, status, wtx_count,
                   rx_data, rx_len, ret, ret_line, out_writes,
                   iblock_tx, n_iblock_tx, last_tx, n_ack_tx, noted, hex_vars, more_vars>>

----------------------------------------------------------------------------
(* iso14443_4_transceive, lines 13-28: the I-block is built in buffer *)

\* mutant: the PCB carries no block-number bit
IBlockPcb_no_bit(bn) == 2

\* buffer[0] = 0x02 | (g_pcb_block_num & 0x01)
IBlockPcb(bn) == BitOr(2, BitAnd(bn, 1))

\* buffer[0..frame_len-1] after memcpy and crc_14a_append
BuildIBlock(bn, tx) == crc_14a_append(<<IBlockPcb(bn)>> \o tx, 1 + Len(tx))

\* mutant: wtx_count is kept from call to call, as a static counter would be
Enter_static_wtx_count(tx, max) ==
    /\ pc = "idle"
    /\ pc' = "loop"
    /\ tx_data' = tx
    /\ max_rx_len' = max
    /\ ret' = "none"
    /\ ret_line' = 0
    /\ bn0' = g_pcb_block_num
    /\ out_writes' = 0
    /\ last_tx' = <<>>
    /\ n_ack_tx' = 0
    /\ since_reset' = IF since_reset = "reset" THEN "first" ELSE "later"
    /\ UNCHANGED <<g_pcb_block_num, wtx_count, rx_data, rx_len, last_ok_bit,
                   noted, hex_vars, more_vars>>

\* what entering the call sets, whatever follows the construction
Enter(tx, max) ==
    /\ pc = "idle"
    /\ pc' = "loop"
    /\ tx_data' = tx
    /\ max_rx_len' = max
    /\ wtx_count' = 0
    /\ ret' = "none"
    /\ ret_line' = 0
    /\ bn0' = g_pcb_block_num
    /\ out_writes' = 0
    /\ last_tx' = <<>>
    /\ n_ack_tx' = 0
    /\ since_reset' = IF since_reset = "reset" THEN "first" ELSE "later"
    /\ UNCHANGED <<g_pcb_block_num, rx_data, rx_len, last_ok_bit, noted,
                   hex_vars, more_vars>>

\* The entry as the source has it: nothing is transmitted, rx_bits keeps its
\* initialiser 0 and status is read uninitialised at line 30 (any byte).
iso14443_4_transceive_entry ==
    \E tx \in TxPayloads, max \in 0..MaxRxLen, st \in Byte :
        /\ Enter(tx, max)
        /\ buffer' = BuildIBlock(g_pcb_block_num, tx)
        /\ rx_bits' = 0
        /\ status' = st
        /\ iblock_tx' = <<>>
        /\ n_iblock_tx' = 0

\* The entry followed by the exchange of the built frame (section 4.1 step 2):
\* the frame goes out once, the reply lands in buffer, status and rx_bits are
\* the primitive's.
iso14443_4_transceive_entry_exchange ==
    \E tx \in TxPayloads, max \in 0..MaxRxLen, r \in ExchangeResults :
        /\ Enter(tx, max)
        /\ buffer' = r.data
        /\ rx_bits' = r.bits
        /\ status' = r.status
        /\ iblock_tx' = BuildIBlock(g_pcb_block_num, tx)
        /\ n_iblock_tx' = 1

\* CRC-valid replies with every PCB whose top two bits are 00, without
\* payload and with the payload 0x90 0x00
IBlockReplies ==
    {Frame(<<p>>) : p \in 0..63} \cup {Frame(<<p, 144, 0>>) : p \in 0..63}

\* the entry followed by an exchange that brings one of these replies
iso14443_4_transceive_entry_iblock_reply ==
    \E tx \in TxPayloads, max \in 0..MaxRxLen, f \in IBlockReplies :
        /\ Enter(tx, max)
        /\ buffer' = f
        /\ rx_bits' = 8 * Len(f)
        /\ status' = STATUS_HF_TAG_OK
        /\ iblock_tx' = BuildIBlock(g_pcb_block_num, tx)
        /\ n_iblock_tx' = 1

----------------------------------------------------------------------------
(* iso14443_4_transceive, lines 29-78: one pass of the while(1) loop *)

WTX_MAX == 10

\* mutant: a partial byte counts as a byte
RxBytes_round_up(bits) == (bits + 7) \div 8

\* uint16_t rx_bytes = rx_bits / 8
RxBytes(bits) == bits \div 8

\* mutant: two bytes are taken as enough
ExchangeFailed_two_bytes(st, bits) == st # STATUS_HF_TAG_OK \/ bits < 2 * 8

\* line 30: status != STATUS_HF_TAG_OK || rx_bits < (3 * 8)
ExchangeFailed(st, bits) == st # STATUS_HF_TAG_OK \/ bits < 3 * 8

\* mutant: only the first trailer byte is compared
CrcCheckFails_first_byte_only(buf, rx_bytes) ==
    At(buf, rx_bytes - 2) # At(crc_14a_calculate(buf, rx_bytes - 2), 0)

\* lines 36-37: the trailer differs from the CRC of buffer[0..rx_bytes-3]
CrcCheckFails(buf, rx_bytes) ==
    LET crc_calc == crc_14a_calculate(buf, rx_bytes - 2)
    IN  \/ At(buf, rx_bytes - 2) # At(crc_calc, 0)
        \/ At(buf, rx_bytes - 1) # At(crc_calc, 1)

\* mutant: the chaining bit is part of the block type
pcb_type_with_chaining(buf) == BitAnd(At(buf, 0), 208)

\* mutant: the top bit alone decides, 10xxxxxx counts as an S-block
pcb_type_top_bit(buf) == IF BitAnd(At(buf, 0), 128) = 128 THEN 192 ELSE 0

\* line 40: pcb_type = buffer[0] & 0xC0
pcb_type(buf) == BitAnd(At(buf, 0), 192)

\* mutant: capacity check off by one
PayloadTooLarge_off_by_one(rx_bytes, max) == rx_bytes - 3 > max + 1

\* line 44: rx_bytes - 3 > max_rx_len
PayloadTooLarge(rx_bytes, max) == rx_bytes - 3 > max

\* mutant: the copy starts at the PCB
IBlockPayload_from_pcb(buf, rx_bytes) == SubSeq(buf, 1, rx_bytes - 3)

\* line 48: the bytes memcpy reads, buffer[1 .. rx_bytes-3]
IBlockPayload(buf, rx_bytes) == SubSeq(buf, 2, rx_bytes - 2)

\* memcpy(dst, src, Len(src)): the first Len(src) bytes of dst replaced
Memcpy(dst, src) == src \o SubSeq(dst, Len(src) + 1, Len(dst))

\* mutant: the frame length is not checked
IsWtxRequest_any_length(buf, rx_bytes) == BitAnd(At(buf, 0), 63) = 50

\* line 52: (buffer[0] & 0x3F) == 0x32 && rx_bytes >= 4
IsWtxRequest(buf, rx_bytes) == BitAnd(At(buf, 0), 63) = 50 /\ rx_bytes >= 4

\* mutant: the PCB is echoed in place of the multiplier
WtxResponse_echo_pcb(buf) == crc_14a_append(<<242, At(buf, 0)>>, 2)

\* lines 54-59: wtx_resp = [0xF2][wtxm = buffer[1]][CRC]
WtxResponse(buf) == crc_14a_append(<<242, At(buf, 1)>>, 2)

\* mutant: >= in place of >
WtxLimitExceeded_ge(count) == count >= WTX_MAX

\* mutant: one more round is let through
WtxLimitExceeded_plus_one(count) == count > WTX_MAX + 1

\* line 66: wtx_count > WTX_MAX
WtxLimitExceeded(count) == count > WTX_MAX

\* a return statement at source line `line` with value r; bn is the block
\* number at that point
Return(r, line, bn) ==
    /\ pc' = "done"
    /\ ret' = r
    /\ ret_line' = line
    /\ g_pcb_block_num' = bn

\* the sequence bit of the I-block the call transmitted
SentBit == IF iblock_tx = <<>> THEN -1 ELSE BitAnd(At(iblock_tx, 0), 1)

\* mutant: a failing pass stores 0 in *rx_len
Fail_writes_len(line, bn) ==
    /\ Return("false", line, bn)
    /\ rx_len' = 0
    /\ out_writes' = out_writes + 1
    /\ UNCHANGED <<tx_data, max_rx_len, buffer, rx_bits, status, wtx_count,
                   rx_data, bn0, iblock_tx, n_iblock_tx, last_tx, n_ack_tx,
                   last_ok_bit, since_reset>>

\* a pass that returns false without touching the caller's outputs or
\* transmitting
Fail(line, bn) ==
    /\ Return("false", line, bn)
    /\ UNCHANGED <<tx_data, max_rx_len, buffer, rx_bits, status, wtx_count,
                   rx_data, rx_len, bn0, out_writes, iblock_tx, n_iblock_tx,
                   last_tx, n_ack_tx, last_ok_bit, since_reset>>

\* mutant: an I-block leaves the block number as it is
IBlockPass_no_toggle(rx_bytes) ==
    LET bn == g_pcb_block_num
    IN  IF PayloadTooLarge(rx_bytes, max_rx_len)
        THEN Fail(45, bn)
        ELSE /\ Return("true", 49, bn)
             /\ rx_len' = rx_bytes - 3
             /\ rx_data' = Memcpy(rx_data, IBlockPayload(buffer, rx_bytes))
             /\ out_writes' = out_writes + 1
             /\ last_ok_bit' = SentBit
             /\ UNCHANGED <<tx_data, max_rx_len, buffer, rx_bits, status,
                            wtx_count, bn0, iblock_tx, n_iblock_tx, last_tx,
                            n_ack_tx, since_reset>>

\* lines 41-49: I-block
IBlockPass(rx_bytes) ==
    LET bn == BitXor(g_pcb_block_num, 1)
    IN  IF PayloadTooLarge(rx_bytes, max_rx_len)
        THEN Fail(45, bn)
        ELSE /\ Return("true", 49, bn)
             /\ rx_len' = rx_bytes - 3
             /\ rx_data' = Memcpy(rx_data, IBlockPayload(buffer, rx_bytes))
             /\ out_writes' = out_writes + 1
             /\ last_ok_bit' = SentBit
             /\ UNCHANGED <<tx_data, max_rx_len, buffer, rx_bits, status,
                            wtx_count, bn0, iblock_tx, n_iblock_tx, last_tx,
                            n_ack_tx, since_reset>>

\* mutant: the WTX pass sends the I-block again in place of the
\* acknowledgement
WtxPass_resend_iblock ==
    \E r \in ExchangeResults :
        /\ last_tx' = iblock_tx
        /\ n_iblock_tx' = n_iblock_tx + 1
        /\ buffer' = r.data
        /\ status' = r.status
        /\ rx_bits' = r.bits
        /\ wtx_count' = wtx_count + 1
        /\ IF WtxLimitExceeded(wtx_count + 1)
           THEN Return("false", 67, g_pcb_block_num)
           ELSE UNCHANGED <<pc, ret, ret_line, g_pcb_block_num>>
        /\ UNCHANGED <<tx_data, max_rx_len, rx_data, rx_len, bn0, out_writes,
                       iblock_tx, n_ack_tx, last_ok_bit, since_reset>>

\* lines 53-69: the WTX request is acknowledged through the raw exchange,
\* whose result replaces status, rx_bits and buffer
WtxPass ==
    \E r \in ExchangeResults :
        /\ last_tx' = WtxResponse(buffer)
        /\ n_ack_tx' = n_ack_tx + 1
        /\ buffer' = r.data
        /\ status' = r.status
        /\ rx_bits' = r.bits
        /\ wtx_count' = wtx_count + 1
        /\ IF WtxLimitExceeded(wtx_count + 1)
           THEN Return("false", 67, g_pcb_block_num)
           ELSE UNCHANGED <<pc, ret, ret_line, g_pcb_block_num>>
        /\ UNCHANGED <<tx_data, max_rx_len, rx_data, rx_len, bn0, out_writes,
                       iblock_tx, n_iblock_tx, last_ok_bit, since_reset>>

iso14443_4_transceive_loop ==
    /\ pc = "loop"
    /\ UNCHANGED <<noted, hex_vars, more_vars>>
    /\ LET rx_bytes == RxBytes(rx_bits)
       IN  IF ExchangeFailed(status, rx_bits)
           THEN Fail(31, g_pcb_block_num)
           ELSE IF CrcCheckFails(buffer, rx_bytes)
           THEN Fail(38, g_pcb_block_num)
           ELSE IF pcb_type(buffer) = 0
           THEN IBlockPass(rx_bytes)
           ELSE IF pcb_type(buffer) = 192
           THEN IF IsWtxRequest(buffer, rx_bytes)
                THEN WtxPass
                ELSE Fail(72, g_pcb_block_num)
           ELSE Fail(76, g_pcb_block_num)

\* the return itself: the call's frame is gone, the caller holds the block
\* number and its output buffer; wtx_count is left as the stale value of the
\* dead local
iso14443_4_transceive_return ==
    /\ pc = "done"
    /\ pc' = "idle"
    /\ tx_data' = <<>>
    /\ max_rx_len' = 0
    /\ buffer' = <<>>
    /\ rx_bits' = 0
    /\ status' = 0
    /\ ret' = "none"
    /\ ret_line' = 0
    /\ bn0' = g_pcb_block_num
    /\ out_writes' = 0
    /\ iblock_tx' = <<>>
    /\ n_iblock_tx' = 0
    /\ last_tx' = <<>>
    /\ n_ack_tx' = 0
    /\ UNCHANGED <<g_pcb_block_num, wtx_count, rx_data, rx_len, last_ok_bit,
                   since_reset, noted, hex_vars, more_vars>>

----------------------------------------------------------------------------
(* The caller of iso14443_4_transceive *)

\* the failure kind behind each return false of the loop
FailureKind ==
    CASE ret_line = 31 ->
             IF status # STATUS_HF_TAG_OK THEN "TransportError" ELSE "FrameTooShort"
      [] ret_line = 38 -> "CrcMismatch"
      [] ret_line = 45 -> "BufferOverflow"
      [] ret_line = 67 -> "WtxLimitExceeded"
      [] ret_line \in {72, 76} -> "UnsupportedBlockType"
      [] OTHER -> "none"

\* what a call hands to its caller: the returned bool and the writes it made
\* to rx_data / *rx_len
CallerResult == [value |-> ret, written |-> out_writes]

NoNote == [kind |-> "none", result |-> [value |-> "none", written |-> 0]]

\* the caller keeps the result of a failed call, to hold it against the
\* result of a later one
caller_keeps_result ==
    /\ pc = "done"
    /\ ret = "false"
    /\ noted' = [kind |-> FailureKind, result |-> CallerResult]
    /\ noted' # noted
    /\ UNCHANGED <<tx_vars, hex_vars, more_vars>>

----------------------------------------------------------------------------
(* hex_to_str (firmware/application/src/rfid/hex_utils.c, lines 35-45) *)

\* static char hexstr[513]
HEXSTR_SIZE == 513

\* longest len a caller passes besides the lengths around the clamp
MaxHexLen == 2
\* calls of hex_to_str in one run
MaxHexCalls == 2

\* len arguments: short ones, the clamp's edge and the largest uint16_t
HexLens == (0..MaxHexLen) \cup {256, 257, 65535}

\* data arguments: data[i] = DataAt(seed, i), running through every nibble
DataSeeds == {0, 171}
DataAt(seed, i) == (seed + 17 * i) % 256

\* const char hex[] = "0123456789ABCDEF", as character codes
hex == <<48, 49, 50, 51, 52, 53, 54, 55, 56, 57, 65, 66, 67, 68, 69, 70>>

\* mutant: len is taken as passed
ClampLen_none(len) == len

\* if (len > 256) len = 256
ClampLen(len) == IF len > 256 THEN 256 ELSE len

\* hex[(b >> 4) & 0xF] and hex[b & 0xF]
HighChar(b) == At(hex, BitAnd(b \div 16, 15))
LowChar(b) == At(hex, BitAnd(b, 15))

\* hexstr[idx] = c; a store outside the array leaves the array as it is and
\* is recorded
InHexstr(idx) == 0 <= idx /\ idx < HEXSTR_SIZE
Store(str, idx, c) == IF InHexstr(idx) THEN [str EXCEPT ![idx + 1] = c] ELSE str

HexInit ==
    /\ hex_pc = "idle"
    /\ hex_data = 0
    /\ hex_arg_len = 0
    /\ hex_len = 0
    /\ hex_i = 0
    /\ hexstr = [k \in 1..HEXSTR_SIZE |-> 0]
    /\ hex_oob = FALSE
    /\ hex_calls = 0

\* lines 35-39: the call, the clamp and the loop's initialiser
hex_to_str_entry ==
    /\ hex_pc = "idle"
    /\ hex_calls < MaxHexCalls
    /\ \E data \in DataSeeds, len \in HexLens :
           /\ hex_data' = data
           /\ hex_arg_len' = len
           /\ hex_len' = ClampLen(len)
    /\ hex_i' = 0
    /\ hex_pc' = "loop"
    /\ hex_calls' = hex_calls + 1
    /\ UNCHANGED <<hexstr, hex_oob, tx_vars, noted, more_vars>>

\* lines 39-43: one test of i < len, then either the loop body or the
\* terminator
hex_to_str_loop ==
    /\ hex_pc = "loop"
    /\ IF hex_i < hex_len
       THEN /\ hexstr' = Store(Store(hexstr, hex_i * 2, HighChar(DataAt(hex_data, hex_i))),
                               hex_i * 2 + 1, LowChar(DataAt(hex_data, hex_i)))
            /\ hex_oob' = (hex_oob \/ ~InHexstr(hex_i * 2) \/ ~InHexstr(hex_i * 2 + 1))
            /\ hex_i' = (hex_i + 1) % 65536
            /\ hex_pc' = "loop"
       ELSE /\ hexstr' = Store(hexstr, hex_len * 2, 0)
            /\ hex_oob' = (hex_oob \/ ~InHexstr(hex_len * 2))
            /\ hex_i' = hex_i
            /\ hex_pc' = "done"
    /\ UNCHANGED <<hex_data, hex_arg_len, hex_len, hex_calls, tx_vars, noted, more_vars>>

\* line 44: return hexstr; the arguments and locals are gone
hex_to_str_return ==
    /\ hex_pc = "done"
    /\ hex_pc' = "idle"
    /\ hex_data' = 0
    /\ hex_arg_len' = 0
    /\ hex_len' = 0
    /\ hex_i' = 0
    /\ UNCHANGED <<hexstr, hex_oob, hex_calls, tx_vars, noted, more_vars>>

----------------------------------------------------------------------------
(* The marquee animations ledblink1 and ledblink6                          *)
(* (firmware/application/src/rgb_marquee.c, lines 36-121 and 381-501).     *)
(* A call of ledblink1 or ledblink6 is one step; the PWM interrupt and the *)
(* timer run between calls, and the interrupt may also come in right       *)
(* after a playback is started inside a call.                              *)

LIGHT_LEVEL_MAX == 99

\* values rand() % 6 takes in the model
RandColors == {0, 1}

\* readings of the autotimer a call can meet
TimerValues == {0, 26, 81}

\* NO_TIMEOUT_1MS(timer, count)
NO_TIMEOUT_1MS(t, count) == t <= count

\* the PWM driver: nrfx_pwm_uninit, nrf_drv_pwm_init,
\* nrf_drv_pwm_simple_playback and nrfx_pwm_stop on one instance
PwmOff == [state |-> "uninit", handler |-> "NULL"]
nrfx_pwm_uninit(p) == PwmOff
nrf_drv_pwm_init(p, handler) ==
    IF p.state = "uninit" THEN [state |-> "init", handler |-> handler] ELSE p
nrf_drv_pwm_simple_playback(p) ==
    IF p.state = "uninit" THEN p ELSE [p EXCEPT !.state = "playing"]
nrfx_pwm_stop(p) ==
    IF p.state = "playing" THEN [p EXCEPT !.state = "init"] ELSE p

\* the marquee state as a record, for the statements of one call to work on
MqState ==
    [l1 |-> ledblink1_step, l6 |-> ledblink6_step, color |-> ledblink6_color,
     level |-> light_level, startled |-> startled, setled |-> setled,
     cb6 |-> callback_waiting6, cb |-> callback_waiting, timer |-> timer,
     pwm |-> pwm0_ins, started |-> FALSE, fresh |-> fresh_finished]

MqSet(m) ==
    /\ ledblink1_step' = m.l1
    /\ ledblink6_step' = m.l6
    /\ ledblink6_color' = m.color
    /\ light_level' = m.level
    /\ startled' = m.startled
    /\ setled' = m.setled
    /\ callback_waiting6' = m.cb6
    /\ callback_waiting' = m.cb
    /\ timer' = m.timer
    /\ pwm0_ins' = m.pwm
    /\ mq_started' = m.started
    /\ fresh_finished' = m.fresh
    /\ UNCHANGED <<g_usb_led_marquee_enable, tx_vars, noted, hex_vars, rest_vars>>

\* lines 46-51
MqStop(m) ==
    [m EXCEPT !.pwm = nrfx_pwm_uninit(nrfx_pwm_stop(m.pwm)), !.l6 = 0, !.l1 = 0]

rgb_marquee_stop == MqSet(MqStop(MqState))

\* lines 54-57
rgb_marquee_reset == MqSet([MqState EXCEPT !.l6 = 0, !.l1 = 0])

\* setled++; if (setled > 7) setled = 0
Wrap7(x) == IF x + 1 > 7 THEN 0 ELSE x + 1

\* mutant: ledblink1 starts without resetting ledblink6_step
Ledblink1Step0_keeps_step6(m) ==
    IF m.l1 = 0 THEN [m EXCEPT !.timer = 0, !.l1 = 1] ELSE m

\* lines 85-97
Ledblink1Step0(m) ==
    IF m.l1 = 0 THEN [m EXCEPT !.timer = 0, !.l1 = 1, !.l6 = 0] ELSE m

\* lines 99-114
Ledblink1Step1(m) ==
    IF m.l1 = 1
    THEN [m EXCEPT !.setled = Wrap7(Wrap7(Wrap7(Wrap7(m.startled)))),
                   !.startled = Wrap7(m.startled),
                   !.pwm = nrf_drv_pwm_simple_playback(
                               nrf_drv_pwm_init(nrfx_pwm_uninit(m.pwm), "NULL")),
                   !.started = TRUE,
                   !.timer = 0,
                   !.l1 = 2]
    ELSE m

\* lines 116-120
Ledblink1Step2(m) ==
    IF m.l1 = 2 /\ ~NO_TIMEOUT_1MS(m.timer, 80) THEN [m EXCEPT !.l1 = 1] ELSE m

\* lines 66-121
ledblink1 ==
    IF ~g_usb_led_marquee_enable /\ ledblink1_step # 0
    THEN MqSet(MqStop([MqState EXCEPT !.startled = 0, !.setled = 0]))
    ELSE MqSet(Ledblink1Step2(Ledblink1Step1(Ledblink1Step0(MqState))))

\* lines 427-431 and 464-468: the playback of one brightness step is started
\* with ledblink6_pwm_callback as handler; irq: its finished event comes in
\* before the call goes on
Ledblink6Play(m, irq, at, next) ==
    IF m.l6 = at
    THEN [m EXCEPT !.pwm = nrf_drv_pwm_simple_playback(
                               nrf_drv_pwm_init(nrfx_pwm_uninit(m.pwm),
                                                "ledblink6_pwm_callback")),
                   !.started = TRUE,
                   !.fresh = irq,
                   !.cb6 = IF irq THEN 1 ELSE m.cb6,
                   !.l6 = next]
    ELSE m

\* lines 433-438 and 470-475: the wait for the finished event
Ledblink6Wait(m, at, next) ==
    IF m.l6 = at /\ m.cb6 # 0 THEN [m EXCEPT !.l6 = next, !.timer = 0] ELSE m

\* lines 439-445 and 476-482: the delay, after which callback_waiting is
\* cleared and the brightness moves by delta
Ledblink6Delay(m, at, back, delta) ==
    IF m.l6 = at /\ ~NO_TIMEOUT_1MS(m.timer, 25)
    THEN [m EXCEPT !.cb = 0, !.level = m.level + delta, !.l6 = back]
    ELSE m

\* lines 399-412
Ledblink6Step0(m) == IF m.l6 = 0 THEN [m EXCEPT !.l6 = 1, !.l1 = 0] ELSE m

\* lines 414-417
Ledblink6Step1(m) == IF m.l6 = 1 THEN [m EXCEPT !.level = 0, !.l6 = 2] ELSE m

\* lines 419-449
Ledblink6Up(m, irq) ==
    IF m.l6 \in {2, 3, 4}
    THEN IF m.level <= LIGHT_LEVEL_MAX
         THEN Ledblink6Delay(Ledblink6Wait(Ledblink6Play(m, irq, 2, 3), 3, 4), 4, 2, 1)
         ELSE [m EXCEPT !.l6 = 5]
    ELSE m

\* lines 451-454
Ledblink6Step5(m) ==
    IF m.l6 = 5 THEN [m EXCEPT !.level = LIGHT_LEVEL_MAX, !.l6 = 6] ELSE m

\* lines 456-490
Ledblink6Down(m, irq, new_color) ==
    IF m.l6 \in {6, 7, 8}
    THEN IF m.level >= 0
         THEN Ledblink6Delay(Ledblink6Wait(Ledblink6Play(m, irq, 6, 7), 7, 8), 8, 6, -1)
         ELSE [m EXCEPT !.l6 = 0, !.color = new_color]
    ELSE m

\* lines 387-491
ledblink6 ==
    IF ~g_usb_led_marquee_enable /\ ledblink6_step # 0
    THEN MqSet(MqStop([MqState EXCEPT !.level = LIGHT_LEVEL_MAX, !.cb6 = 0]))
    ELSE \E irq \in BOOLEAN, new_color \in RandColors \ {ledblink6_color} :
             MqSet(Ledblink6Down(Ledblink6Step5(Ledblink6Up(
                       Ledblink6Step1(Ledblink6Step0(MqState)), irq)),
                   irq, new_color))

\* lines 382-386: the interrupt of a playback that has ledblink6_pwm_callback
\* as handler
ledblink6_pwm_callback ==
    /\ pwm0_ins.state = "playing"
    /\ pwm0_ins.handler = "ledblink6_pwm_callback"
    /\ \E event_type \in {"NRF_DRV_PWM_EVT_FINISHED", "NRF_DRV_PWM_EVT_STOPPED"} :
           IF event_type = "NRF_DRV_PWM_EVT_FINISHED"
           THEN callback_waiting6' = 1 /\ fresh_finished' = TRUE
           ELSE UNCHANGED <<callback_waiting6, fresh_finished>>
    /\ UNCHANGED <<g_usb_led_marquee_enable, ledblink1_step, ledblink6_step,
                   ledblink6_color, light_level, startled, setled,
                   callback_waiting, timer, pwm0_ins, mq_started,
                   tx_vars, noted, hex_vars, rest_vars>>

\* time passes on the autotimer
bsp_timer_tick ==
    /\ \E t \in TimerValues : t > timer /\ timer' = t
    /\ UNCHANGED <<g_usb_led_marquee_enable, ledblink1_step, ledblink6_step,
                   ledblink6_color, light_level, startled, setled,
                   callback_waiting6, callback_waiting, pwm0_ins, mq_started,
                   fresh_finished, tx_vars, noted, hex_vars, rest_vars>>

\* the setting behind is_rgb_marquee_enable (lines 499-501) is switched
marquee_enable_switch ==
    /\ g_usb_led_marquee_enable' = ~g_usb_led_marquee_enable
    /\ UNCHANGED <<ledblink1_step, ledblink6_step, ledblink6_color, light_level,
                   startled, setled, callback_waiting6, callback_waiting, timer,
                   pwm0_ins, mq_started, fresh_finished, tx_vars, noted, hex_vars,
                   rest_vars>>

MqInit ==
    /\ g_usb_led_marquee_enable = TRUE
    /\ ledblink1_step = 0
    /\ ledblink6_step = 0
    /\ ledblink6_color = 0
    /\ light_level = LIGHT_LEVEL_MAX
    /\ startled = 0
    /\ setled = 0
    /\ callback_waiting6 = 0
    /\ callback_waiting = 0
    /\ timer = 0
    /\ pwm0_ins = PwmOff
    /\ mq_started = FALSE
    /\ fresh_finished = FALSE

----------------------------------------------------------------------------
(* ledblink5 (rgb_marquee.c lines 353-376) *)

\* LED positions callers pass as start and stop
Blink5Positions == 0..7
Blink5Colors == {0, 1, 2}

\* the marquee statics ledblink5 leaves alone
mq_but_pwm == <<g_usb_led_marquee_enable, ledblink1_step, ledblink6_step,
                ledblink6_color, light_level, startled, setled,
                callback_waiting6, callback_waiting, timer, mq_started,
                fresh_finished>>

\* line 363: start < stop ? stop + 1 : stop - 1, in int
Blink5Bound(start, stop) == IF start < stop THEN stop + 1 ELSE stop - 1

\* line 374: setled = start < stop ? setled + 1 : setled - 1, stored as uint8_t
Blink5Advance(start, stop, s) ==
    IF start < stop THEN (s + 1) % 256 ELSE (s + 255) % 256

\* lines 353-362: the call, setled = start
ledblink5_entry ==
    /\ ledblink5_pc = "idle"
    /\ \E color \in Blink5Colors, start \in Blink5Positions, stop \in Blink5Positions :
           /\ ledblink5_color' = color
           /\ ledblink5_start' = start
           /\ ledblink5_stop' = stop
           /\ ledblink5_setled' = start
    /\ ledblink5_lit' = <<>>
    /\ ledblink5_pc' = "loop"
    /\ UNCHANGED <<tx_vars, noted, hex_vars, mq_vars, idle_vars, build_vars, conv_vars>>

\* lines 363-375: one test of the loop condition and, if it holds, one pass
ledblink5_loop ==
    /\ ledblink5_pc = "loop"
    /\ IF ledblink5_setled < Blink5Bound(ledblink5_start, ledblink5_stop)
       THEN /\ ledblink5_lit' = Append(ledblink5_lit, ledblink5_setled)
            /\ pwm0_ins' = nrf_drv_pwm_simple_playback(
                               nrf_drv_pwm_init(nrfx_pwm_uninit(pwm0_ins), "NULL"))
            /\ ledblink5_setled' =
                   Blink5Advance(ledblink5_start, ledblink5_stop, ledblink5_setled)
            /\ UNCHANGED ledblink5_pc
       ELSE /\ ledblink5_pc' = "done"
            /\ UNCHANGED <<ledblink5_lit, pwm0_ins, ledblink5_setled>>
    /\ UNCHANGED <<ledblink5_color, ledblink5_start, ledblink5_stop, mq_but_pwm,
                   tx_vars, noted, hex_vars, idle_vars, build_vars, conv_vars>>

\* line 376: the call returns
ledblink5_return ==
    /\ ledblink5_pc = "done"
    /\ ledblink5_pc' = "idle"
    /\ UNCHANGED <<ledblink5_color, ledblink5_start, ledblink5_stop,
                   ledblink5_setled, ledblink5_lit, tx_vars, noted, hex_vars,
                   mq_vars, idle_vars, build_vars, conv_vars>>

Blink5Init ==
    /\ ledblink5_pc = "idle"
    /\ ledblink5_color = 0
    /\ ledblink5_start = 0
    /\ ledblink5_stop = 0
    /\ ledblink5_setled = 0
    /\ ledblink5_lit = <<>>

----------------------------------------------------------------------------
(* rgb_idle_cycle_step, rgb_idle_cycle_reset and rgb_bootup_animation
   (rgb_marquee.c lines 524-715 and 808-981) *)

PWM_MAX == 1000
RGB_LIST_NUM == 8

\* values of tag_emulation_get_slot()
Slots == 0..(RGB_LIST_NUM - 1)

\* readings of the time since last_update: below and not below the 30 ms of
\* line 831
ElapsedValues == {0, 30}

\* the reading after a wait of seconds (the delays of rgb_bootup_animation)
LongElapsed == CHOOSE e \in ElapsedValues : \A x \in ElapsedValues : x <= e

\* lines 851-862
HeartbeatBrightness(phase) ==
    LET raw == IF phase < 16 THEN phase * 62
               ELSE IF phase < 26 THEN (26 - phase) * 99
               ELSE IF phase < 36 THEN (phase - 26) * 50
               ELSE IF phase < 51 THEN (51 - phase) * 33
               ELSE 0
    IN  IF raw % 65536 > 1000 THEN 1000 ELSE raw % 65536

\* lines 865-876: hue to r, g, b
HueToRgb(h) ==
    LET region == (h \div 43) % 256
        remainder == ((h - (region * 43)) * 6) % 256
    IN  CASE region = 0 -> [r |-> 255, g |-> remainder, b |-> 0]
          [] region = 1 -> [r |-> 255 - remainder, g |-> 255, b |-> 0]
          [] region = 2 -> [r |-> 0, g |-> 255, b |-> remainder]
          [] region = 3 -> [r |-> 0, g |-> 255 - remainder, b |-> 255]
          [] region = 4 -> [r |-> remainder, g |-> 0, b |-> 255]
          [] OTHER -> [r |-> 255, g |-> 0, b |-> 255 - remainder]

\* lines 889-890 and 895-896
ZoneLed(led, dist, hb) ==
    [led |-> led, brightness |-> ((hb * (1000 - (dist * 250))) \div 1000) % 65536]

\* lines 884-898: one pass of the loop over dist; zone holds heartbeat_leds
\* and led_brightness, its length is heartbeat_count
ZonePass(zone, slot, dist, hb) ==
    LET left == slot - dist
        right == slot + dist
        zone1 == IF left >= 0 /\ left < RGB_LIST_NUM /\ Len(zone) < 4
                 THEN Append(zone, ZoneLed(left, dist, hb))
                 ELSE zone
    IN  IF right < RGB_LIST_NUM /\ right # left /\ Len(zone1) < 4
        THEN Append(zone1, ZoneLed(right, dist, hb))
        ELSE zone1

\* line 883: for (dist = 1; dist <= 3 && heartbeat_count < 4; dist++)
RECURSIVE ZoneLoop(_, _, _, _)
ZoneLoop(zone, slot, dist, hb) ==
    IF dist <= 3 /\ Len(zone) < 4
    THEN ZoneLoop(ZonePass(zone, slot, dist, hb), slot, dist + 1, hb)
    ELSE zone

\* lines 921-928: one colour channel scaled by the heartbeat, inverted
GlowDuty(c, hb) ==
    LET glow == ((c * hb) \div 1000) % 65536
    IN  (PWM_MAX - ((glow * PWM_MAX) \div 255)) % 65536

\* lines 940-946
InZone(zone, i) ==
    \E j \in 1..Len(zone) : zone[j].led = i /\ zone[j].brightness > 100

\* mutant: the slot LED pulses with the heartbeat like its neighbours
IdleLeds_slot_pulses(slot, zone) ==
    [i \in 0..(RGB_LIST_NUM - 1) |-> InZone(zone, i)]

\* lines 934-953: the slot LED on, the zone LEDs on while bright enough
IdleLeds(slot, zone) ==
    [i \in 0..(RGB_LIST_NUM - 1) |-> IF i = slot THEN TRUE ELSE InZone(zone, i)]

\* instance 2 with the misuse a driver call meets: an init of an
\* initialised instance is refused, a playback on an uninitialised one has
\* nothing to run on
Pwm2Init(s) ==
    [pwm |-> nrf_drv_pwm_init(s.pwm, "NULL"),
     faults |-> IF s.pwm.state # "uninit" THEN s.faults \cup {"init_twice"}
                ELSE s.faults]
Pwm2Playback(s) ==
    [pwm |-> nrf_drv_pwm_simple_playback(s.pwm),
     faults |-> IF s.pwm.state = "uninit" THEN s.faults \cup {"play_uninit"}
                ELSE s.faults]
Pwm2Stop(s) == [s EXCEPT !.pwm = nrfx_pwm_stop(s.pwm)]
Pwm2Uninit(s) == [s EXCEPT !.pwm = nrfx_pwm_uninit(s.pwm)]
Pwm2State == [pwm |-> pwm_instance2, faults |-> {}]

\* lines 823-964
rgb_idle_cycle_step ==
    IF idle_elapsed < 30
    THEN /\ idle_ret' = "false"
         /\ pwm2_faults' = {}
         /\ UNCHANGED <<idle_elapsed, hue, heartbeat_phase,
                        rgb_pwm_idle_initialized, pwm_instance2,
                        rgb_idle_sequ_val, led_on, idle_slot, heartbeat_count,
                        tx_vars, noted, hex_vars, mq_vars, b5_vars, build_vars, conv_vars>>
    ELSE \E slot \in Slots :
           LET new_hue == (hue + 1) % 256
               new_phase == (heartbeat_phase + 1) % 100
               heartbeat_brightness == HeartbeatBrightness(new_phase)
               rgb == HueToRgb(new_hue)
               zone == ZoneLoop(<<>>, slot, 1, heartbeat_brightness)
               inited == IF rgb_pwm_idle_initialized = 0
                         THEN Pwm2Init(Pwm2State) ELSE Pwm2State
               played == Pwm2Playback(inited)
               final == IF heartbeat_brightness < 50
                        THEN Pwm2Stop(played) ELSE played
           IN  /\ idle_elapsed' = 0
               /\ hue' = new_hue
               /\ heartbeat_phase' = new_phase
               /\ rgb_pwm_idle_initialized' = 1
               /\ rgb_idle_sequ_val' =
                      [channel_0 |-> GlowDuty(rgb.r, heartbeat_brightness),
                       channel_1 |-> GlowDuty(rgb.g, heartbeat_brightness),
                       channel_2 |-> GlowDuty(rgb.b, heartbeat_brightness),
                       channel_3 |-> PWM_MAX]
               /\ pwm_instance2' = final.pwm
               /\ pwm2_faults' = final.faults
               /\ led_on' = IF heartbeat_brightness < 50
                             THEN [IdleLeds(slot, zone) EXCEPT ![slot] = TRUE]
                             ELSE IdleLeds(slot, zone)
               /\ idle_slot' = slot
               /\ heartbeat_count' = Len(zone)
               /\ idle_ret' = "true"
               /\ UNCHANGED <<tx_vars, noted, hex_vars, mq_vars, b5_vars, build_vars, conv_vars>>

\* the calls below are not calls of rgb_idle_cycle_step
NotIdleStep == idle_ret' = "none" /\ idle_slot' = 0 /\ heartbeat_count' = 0

\* lines 969-981
rgb_idle_cycle_reset ==
    LET final == IF rgb_pwm_idle_initialized # 0
                 THEN Pwm2Uninit(Pwm2Stop(Pwm2State)) ELSE Pwm2State
    IN  /\ pwm0_ins' = nrfx_pwm_uninit(nrfx_pwm_stop(pwm0_ins))
        /\ pwm_instance2' = final.pwm
        /\ pwm2_faults' = final.faults
        /\ rgb_pwm_idle_initialized' = 0
        /\ led_on' = [i \in 0..(RGB_LIST_NUM - 1) |-> FALSE]
        /\ NotIdleStep
        /\ UNCHANGED <<idle_elapsed, hue, heartbeat_phase, rgb_idle_sequ_val,
                       mq_but_pwm, tx_vars, noted, hex_vars, b5_vars, build_vars, conv_vars>>

\* lines 524-715: the whole animation; its frames start playbacks on
\* instance 2 through the handle pwm_rgb
rgb_bootup_animation ==
    \E slot \in Slots :
        LET final == Pwm2Uninit(Pwm2Stop(Pwm2Playback(Pwm2Init(Pwm2State))))
        IN  /\ pwm_instance2' = final.pwm
            /\ pwm2_faults' = final.faults
            /\ led_on' = [i \in 0..(RGB_LIST_NUM - 1) |-> i = slot]
            /\ NotIdleStep
            /\ idle_elapsed' = LongElapsed
            /\ UNCHANGED <<hue, heartbeat_phase,
                           rgb_pwm_idle_initialized, rgb_idle_sequ_val,
                           tx_vars, noted, hex_vars, mq_vars, b5_vars, build_vars, conv_vars>>

\* the app timer counts on
app_timer_tick ==
    /\ \E e \in ElapsedValues : e > idle_elapsed /\ idle_elapsed' = e
    /\ UNCHANGED <<hue, heartbeat_phase, rgb_pwm_idle_initialized,
                   pwm_instance2, rgb_idle_sequ_val, led_on, idle_slot,
                   idle_ret, heartbeat_count, pwm2_faults,
                   tx_vars, noted, hex_vars, mq_vars, b5_vars, build_vars, conv_vars>>

IdleInit ==
    /\ idle_elapsed = 0
    /\ hue = 0
    /\ heartbeat_phase = 0
    /\ rgb_pwm_idle_initialized = 0
    /\ pwm_instance2 = PwmOff
    /\ rgb_idle_sequ_val =
           [channel_0 |-> 0, channel_1 |-> 0, channel_2 |-> 0, channel_3 |-> 0]
    /\ led_on = [i \in 0..(RGB_LIST_NUM - 1) |-> FALSE]
    /\ idle_slot = 0
    /\ idle_ret = "none"
    /\ heartbeat_count = 0
    /\ pwm2_faults = {}

----------------------------------------------------------------------------
(* Frame construction of iso14443_4_transceive (lines 13-25), index by index *)

\* uint8_t buffer[260]
BUFFER_SIZE == 260

\* tx_len of the calls: short payloads, the lengths around the size of the
\* buffer and the largest uint16_t
BuildTxLens == (0..40) \cup (250..265) \cup {65535}

Max(a, b) == IF a >= b THEN a ELSE b

\* lines 13 and 19: the call; buffer[0] takes the PCB
build_pcb ==
    /\ build_pc = "idle"
    /\ \E tx_len \in BuildTxLens : build_tx_len' = tx_len
    /\ build_top' = 0
    /\ frame_len' = 0
    /\ build_pc' = "payload"
    /\ UNCHANGED <<tx_vars, noted, hex_vars, mq_vars, b5_vars, idle_vars, conv_vars>>

\* line 20: memcpy(&buffer[1], tx_data, tx_len) writes buffer[1..tx_len]
build_payload ==
    /\ build_pc = "payload"
    /\ build_top' = IF build_tx_len > 0 THEN Max(build_top, build_tx_len)
                    ELSE build_top
    /\ build_pc' = "crc"
    /\ UNCHANGED <<build_tx_len, frame_len, tx_vars, noted, hex_vars, mq_vars,
                   b5_vars, idle_vars, conv_vars>>

\* line 23: crc_14a_append(buffer, 1 + tx_len) writes the two bytes after
\* the first 1 + tx_len
build_crc ==
    /\ build_pc = "crc"
    /\ build_top' = Max(build_top, 1 + build_tx_len + 1)
    /\ build_pc' = "len"
    /\ UNCHANGED <<build_tx_len, frame_len, tx_vars, noted, hex_vars, mq_vars,
                   b5_vars, idle_vars, conv_vars>>

\* line 25: uint16_t frame_len = 1 + tx_len + 2
build_frame_len ==
    /\ build_pc = "len"
    /\ frame_len' = (1 + build_tx_len + 2) % 65536
    /\ build_pc' = "built"
    /\ UNCHANGED <<build_tx_len, build_top, tx_vars, noted, hex_vars, mq_vars,
                   b5_vars, idle_vars, conv_vars>>

\* the call goes on to the exchange and returns
build_return ==
    /\ build_pc = "built"
    /\ build_pc' = "idle"
    /\ UNCHANGED <<build_tx_len, build_top, frame_len, tx_vars, noted, hex_vars,
                   mq_vars, b5_vars, idle_vars, conv_vars>>

BuildInit ==
    /\ build_pc = "idle"
    /\ build_tx_len = 0
    /\ build_top = -1
    /\ frame_len = 0

----------------------------------------------------------------------------
(* num_to_bytes and bytes_to_num (hex_utils.c lines 11-32).  A uint64_t is
   held as four 16-bit limbs, lowest first. *)

\* largest len a caller passes
MaxConvLen == 8
\* bytes of the caller's array
DestSize == MaxConvLen + 2

\* values of n callers pass: 0, 1, 0x0102030405060708, 0x80000000000000FF,
\* 0xDEADBEEF, 0xFFFFFFFFFFFFFFFF
NumValues ==
    {<<0, 0, 0, 0>>, <<1, 0, 0, 0>>, <<1800, 1286, 772, 258>>,
     <<255, 0, 0, 32768>>, <<48879, 57005, 0, 0>>,
     <<65535, 65535, 65535, 65535>>}

\* the array before the call: no byte of it is one the functions store
DestBefore == [i \in 0..(DestSize - 1) |-> 90 + i]

Zero64 == <<0, 0, 0, 0>>

\* (uint8_t)n
LowByte(x) == x[1] % 256

\* mutant: the shift within each 16-bit limb alone
ShiftRight8_no_carry(x) == [i \in 1..4 |-> x[i] \div 256]

\* n >> 8
ShiftRight8(x) ==
    [i \in 1..4 |-> (x[i] \div 256) + (IF i < 4 THEN (x[i + 1] % 256) * 256 ELSE 0)]

\* (num << 8) | b for a byte b
ShiftLeft8Or(x, b) ==
    [i \in 1..4 |-> ((x[i] * 256) % 65536)
                      + (IF i > 1 THEN x[i - 1] \div 256 ELSE b)]

\* line 11: num_to_bytes is called
num_to_bytes_entry ==
    /\ conv_pc = "idle"
    /\ \E v \in NumValues, len \in 0..MaxConvLen :
           /\ conv_n' = v
           /\ conv_len' = len
           /\ ntb_n' = v
           /\ ntb_len' = len
    /\ dest' = DestBefore
    /\ dest_written' = {}
    /\ btn_src' = 0
    /\ btn_len' = 0
    /\ btn_num' = Zero64
    /\ conv_pc' = "num_to_bytes"
    /\ UNCHANGED <<tx_vars, noted, hex_vars, mq_vars, b5_vars, idle_vars,
                   build_vars>>

\* lines 12-15: one test of while (len--) and, if it holds, one pass
num_to_bytes_loop ==
    /\ conv_pc = "num_to_bytes"
    /\ ntb_len' = (ntb_len + 255) % 256
    /\ IF ntb_len # 0
       THEN /\ dest' = [dest EXCEPT ![ntb_len'] = LowByte(ntb_n)]
            /\ dest_written' = dest_written \cup {ntb_len'}
            /\ ntb_n' = ShiftRight8(ntb_n)
            /\ UNCHANGED conv_pc
       ELSE /\ conv_pc' = "converted"
            /\ UNCHANGED <<dest, dest_written, ntb_n>>
    /\ UNCHANGED <<conv_n, conv_len, btn_src, btn_len, btn_num, tx_vars, noted,
                   hex_vars, mq_vars, b5_vars, idle_vars, build_vars>>

\* lines 25-26: bytes_to_num is called on the array with the same len
bytes_to_num_entry ==
    /\ conv_pc = "converted"
    /\ btn_src' = 0
    /\ btn_len' = conv_len
    /\ btn_num' = Zero64
    /\ conv_pc' = "bytes_to_num"
    /\ UNCHANGED <<conv_n, conv_len, ntb_n, ntb_len, dest, dest_written,
                   tx_vars, noted, hex_vars, mq_vars, b5_vars, idle_vars,
                   build_vars>>

\* lines 27-30: one test of while (len--) and, if it holds, one pass
bytes_to_num_loop ==
    /\ conv_pc = "bytes_to_num"
    /\ btn_len' = (btn_len + 255) % 256
    /\ IF btn_len # 0
       THEN /\ btn_num' = ShiftLeft8Or(btn_num, dest[btn_src])
            /\ btn_src' = btn_src + 1
            /\ UNCHANGED conv_pc
       ELSE /\ conv_pc' = "done"
            /\ UNCHANGED <<btn_num, btn_src>>
    /\ UNCHANGED <<conv_n, conv_len, ntb_n, ntb_len, dest, dest_written,
                   tx_vars, noted, hex_vars, mq_vars, b5_vars, idle_vars,
                   build_vars>>

\* line 31: return num
bytes_to_num_return ==
    /\ conv_pc = "done"
    /\ conv_pc' = "idle"
    /\ UNCHANGED <<conv_n, conv_len, ntb_n, ntb_len, dest, dest_written,
                   btn_src, btn_len, btn_num, tx_vars, noted, hex_vars, mq_vars,
                   b5_vars, idle_vars, build_vars>>

ConvInit ==
    /\ conv_pc = "idle"
    /\ conv_n = Zero64
    /\ conv_len = 0
    /\ ntb_n = Zero64
    /\ ntb_len = 0
    /\ dest = DestBefore
    /\ dest_written = {}
    /\ btn_src = 0
    /\ btn_len = 0
    /\ btn_num = Zero64

MoreInit == MqInit /\ Blink5Init /\ IdleInit /\ BuildInit /\ ConvInit

----------------------------------------------------------------------------
(* Specifications *)

Init ==
    /\ g_pcb_block_num = 0
    /\ pc = "idle"
    /\ tx_data = <<>>
    /\ max_rx_len = 0
    /\ buffer = <<>>
    /\ rx_bits = 0
    /\ status = 0
    /\ wtx_count = 0
    /\ rx_data = [i \in 1..MaxRxLen |-> 0]
    /\ rx_len = 0
    /\ ret = "none"
    /\ ret_line = 0
    /\ bn0 = 0
    /\ out_writes = 0
    /\ iblock_tx = <<>>
    /\ n_iblock_tx = 0
    /\ last_tx = <<>>
    /\ n_ack_tx = 0
    /\ last_ok_bit = -1
    /\ since_reset = "boot"
    /\ noted = NoNote
    /\ HexInit
    /\ MoreInit

\* the source as it is
Next ==
    \/ iso14443_4_reset_block_num
    \/ iso14443_4_transceive_entry
    \/ iso14443_4_transceive_loop
    \/ iso14443_4_transceive_return

Spec == Init /\ [][Next]_vars

\* the source with the exchange of the built I-block in place
NextExchanged ==
    \/ iso14443_4_reset_block_num
    \/ iso14443_4_transceive_entry_exchange
    \/ iso14443_4_transceive_loop
    \/ iso14443_4_transceive_return

SpecExchanged == Init /\ [][NextExchanged]_vars

\* calls whose exchange brings a CRC-valid reply with a PCB in 0x00..0x3F
NextIBlocks ==
    \/ iso14443_4_reset_block_num
    \/ iso14443_4_transceive_entry_iblock_reply
    \/ iso14443_4_transceive_loop
    \/ iso14443_4_transceive_return

SpecIBlocks == Init /\ [][NextIBlocks]_vars

\* the source as it is, with a caller that keeps the result of a failed call
NextCaller ==
    \/ iso14443_4_reset_block_num
    \/ iso14443_4_transceive_entry
    \/ iso14443_4_transceive_loop
    \/ iso14443_4_transceive_return
    \/ caller_keeps_result

SpecCaller == Init /\ [][NextCaller]_vars

\* hex_to_str called with arguments from DataSeeds and HexLens
NextHex ==
    \/ hex_to_str_entry
    \/ hex_to_str_loop
    \/ hex_to_str_return

SpecHex == Init /\ [][NextHex]_vars

\* ledblink1, ledblink6, rgb_marquee_stop and rgb_marquee_reset called in any
\* order, with the PWM interrupt, the timer and the enable setting
NextMarquee ==
    \/ ledblink1
    \/ ledblink6
    \/ rgb_marquee_stop
    \/ rgb_marquee_reset
    \/ ledblink6_pwm_callback
    \/ bsp_timer_tick
    \/ marquee_enable_switch

SpecMarquee == Init /\ [][NextMarquee]_vars

\* ledblink5 called over and over
NextBlink5 == ledblink5_entry \/ ledblink5_loop \/ ledblink5_return

SpecBlink5 == Init /\ [][NextBlink5]_vars

\* the idle animation polled from the main loop, with resets
NextIdle == rgb_idle_cycle_step \/ rgb_idle_cycle_reset \/ app_timer_tick

SpecIdle == Init /\ [][NextIdle]_vars

\* the same with the bootup animation called in between
NextIdleBoot == NextIdle \/ rgb_bootup_animation

SpecIdleBoot == Init /\ [][NextIdleBoot]_vars

\* the frame construction of one call after another
NextBuild ==
    build_pcb \/ build_payload \/ build_crc \/ build_frame_len \/ build_return

SpecBuild == Init /\ [][NextBuild]_vars

\* num_to_bytes followed by bytes_to_num on its result
NextConv ==
    \/ num_to_bytes_entry
    \/ num_to_bytes_loop
    \/ bytes_to_num_entry
    \/ bytes_to_num_loop
    \/ bytes_to_num_return

SpecConv == Init /\ [][NextConv]_vars

----------------------------------------------------------------------------
(* Properties *)

\* a reply is up for classification: the call is at the loop head with a
\* successful exchange of at least 3 bytes
Classifying == pc = "loop" /\ status = STATUS_HF_TAG_OK /\ rx_bits >= 24

\* whole bytes of the reply
ReplyLen == rx_bits \div 8

\* the reply's last two bytes are the CRC_A of the bytes before them
ReplyCrcValid ==
    SubSeq(buffer, ReplyLen - 1, ReplyLen) = crc_14a_calculate(buffer, ReplyLen - 2)

\* top two bits and low six bits of the reply's PCB
ReplyTop2 == At(buffer, 0) \div 64
ReplyLow6 == At(buffer, 0) % 64

\* a CRC-valid S(WTX) request: PCB 0xF2 and a multiplier byte
ValidWtxRequest ==
    Classifying /\ At(buffer, 0) = 242 /\ ReplyLen >= 4 /\ ReplyCrcValid

\* the acknowledgement of a request with multiplier m
WtxAck(m) == <<242, m>> \o crc_14a_calculate(<<242, m>>, 2)

\* C1: in every call the built I-block frame is transmitted exactly once
\* before the first classification, so the first status/length check reads
\* what that exchange returned.
C1_IBlockSentOnceBeforeClassification ==
    pc \in {"loop", "done"} =>
        /\ n_iblock_tx = 1
        /\ iblock_tx = Frame(<<2 + (bn0 % 2)>> \o tx_data)

TwoFailures == pc = "done" /\ ret = "false" /\ noted.kind # "none"

\* C11 as stated: two calls that fail for different kinds (TransportError,
\* FrameTooShort, CrcMismatch, UnsupportedBlockType, BufferOverflow,
\* WtxLimitExceeded) return results the caller can tell apart.
C11_Original ==
    (TwoFailures /\ noted.kind # FailureKind) => noted.result # CallerResult

\* C11 amended: every failed call hands its caller one and the same result,
\* the value false with nothing written to rx_data or *rx_len, whatever the
\* failure kind; two failed calls of different kinds return equal results.
C11_FailuresShareOneResult ==
    /\ (pc = "done" /\ ret = "false") =>
           CallerResult = [value |-> "false", written |-> 0]
    /\ TwoFailures => noted.result = CallerResult

C11_Witness ==
    /\ TwoFailures
    /\ noted.kind = "TransportError"
    /\ FailureKind = "FrameTooShort"
    /\ noted.result = CallerResult

\* the exchange result at the loop head is a failed exchange or a reply of
\* fewer than 24 bits
BadExchange == pc = "loop" /\ (status # STATUS_HF_TAG_OK \/ rx_bits < 24)

FittingIBlockReturned ==
    /\ pc = "done"
    /\ ret_line # 67
    /\ status = STATUS_HF_TAG_OK
    /\ rx_bits >= 24
    /\ ReplyCrcValid
    /\ ReplyTop2 = 0
    /\ ReplyLen - 3 <= max_rx_len

Exchanges == n_iblock_tx + n_ack_tx

HasNul(str) == \E k \in 1..Len(str) : str[k] = 0
StrLen(str) == CHOOSE n \in 0..(Len(str) - 1) :
                   str[n + 1] = 0 /\ \A k \in 1..n : str[k] # 0

\* the character codes of 0-9 and A-F, and the digit of a nibble
HexDigits == (48..57) \cup (65..70)
NibbleChar(n) == IF n < 10 THEN 48 + n ELSE 55 + n

IBlockLayout(bn, tx) ==
    LET body == <<2 + bn>> \o tx
    IN  body \o crc_14a_calculate(body, Len(body))

Transmits ==
    \/ n_iblock_tx' # n_iblock_tx
    \/ n_ack_tx' # n_ack_tx
    \/ last_tx' # last_tx

\* a step returns false and transmits nothing
FailsSilently == pc' = "done" /\ ret' = "false" /\ ~Transmits

\* a step transmits the acknowledgement of the request in buffer and nothing
\* else
AcksRequest ==
    /\ n_iblock_tx' = n_iblock_tx
    /\ n_ack_tx' = n_ack_tx + 1
    /\ last_tx' = WtxAck(At(buffer, 1))

WholeBytes == CHOOSE n \in 0..rx_bits : 8 * n <= rx_bits /\ rx_bits < 8 * (n + 1)

\* the call has returned from classifying a reply of at least 24 bits
ClassifiedReply ==
    /\ pc = "done"
    /\ status = STATUS_HF_TAG_OK
    /\ rx_bits >= 24
    /\ ret_line # 67

C21_WaitNeedsFreshEvent ==
    [][(ledblink6_step' \in {4, 8} /\ ledblink6_step' # ledblink6_step) =>
          fresh_finished']_vars

\* C22: while g_usb_led_marquee_enable is false, a call of ledblink1 or
\* ledblink6 starts no PWM playback and leaves ledblink1_step and
\* ledblink6_step at 0, whatever the steps were before, 0 included.
C22_DisabledNeverRuns ==
    [][(~g_usb_led_marquee_enable /\ (ledblink1 \/ ledblink6)) =>
          /\ ~mq_started'
          /\ ledblink1_step' = 0
          /\ ledblink6_step' = 0]_vars

\* C27: after any sequence of ledblink1, ledblink6, rgb_marquee_stop and
\* rgb_marquee_reset calls from both steps 0, at most one of ledblink1_step
\* and ledblink6_step is nonzero, ledblink1_step is in {0, 1, 2} and
\* ledblink6_step in 0..8.
C27_OneAnimationAtATime ==
    /\ ledblink1_step = 0 \/ ledblink6_step = 0
    /\ ledblink1_step \in {0, 1, 2}
    /\ ledblink6_step \in 0..8

\* ledblink6 fading down after ledblink1 has run
C27_Witness ==
    /\ ledblink6_step = 8
    /\ ledblink1_step = 0
    /\ startled # 0

\* the positions from start to stop inclusive, in the order of the direction
Blink5Span(start, stop) ==
    IF start <= stop
    THEN [k \in 1..(stop - start + 1) |-> start + k - 1]
    ELSE [k \in 1..(start - stop + 1) |-> start - k + 1]

\* C23: when ledblink5(color, start, stop) has run, it has lit each position
\* from start to stop inclusive, one at a time and in order, ascending for
\* start < stop and descending for start > stop, and no other index
C23_LightsStartToStop ==
    (ledblink5_pc = "done" /\ ledblink5_start # ledblink5_stop) =>
        ledblink5_lit = Blink5Span(ledblink5_start, ledblink5_stop)

\* the duty values of the last playback of the idle animation
IdleDuties ==
    {rgb_idle_sequ_val.channel_0, rgb_idle_sequ_val.channel_1,
     rgb_idle_sequ_val.channel_2, rgb_idle_sequ_val.channel_3}

C24_AfterUpdate ==
    /\ idle_ret = "true" => led_on[idle_slot]
    /\ hue \in 0..255
    /\ heartbeat_phase \in 0..99
    /\ heartbeat_count <= 4
    /\ \A d \in IdleDuties : d \in 0..PWM_MAX

C24_EarlyCall ==
    (rgb_idle_cycle_step /\ idle_elapsed < 30) =>
        /\ idle_ret' = "false"
        /\ UNCHANGED <<led_on, hue, heartbeat_phase>>

\* C24: after every rgb_idle_cycle_step call that returns true the LED of
\* the polled slot (0..7) is on; a call made less than 30 ms after the
\* previous update returns false and changes no LED, hue or heartbeat
\* state; hue stays in 0..255, the heartbeat phase in 0..99, heartbeat_count
\* never exceeds 4 and every PWM duty value written is within 0..1000
C24_IdleStep == []C24_AfterUpdate /\ [][C24_EarlyCall]_vars

\* an update in the rising heartbeat with four LEDs in the zone, one of
\* them lit beside the slot LED
C24_Witness ==
    /\ idle_ret = "true"
    /\ heartbeat_count = 4
    /\ heartbeat_phase = 16
    /\ \E i \in 0..(RGB_LIST_NUM - 1) : i # idle_slot /\ led_on[i]

\* C28: rgb_pwm_idle_initialized is set exactly when PWM instance 2 is
\* initialised; no call initialises the instance while it is initialised
\* or starts a playback on it while it is uninitialised
C28_FlagTracksInstance2 ==
    /\ (rgb_pwm_idle_initialized # 0) <=> (pwm_instance2.state # "uninit")
    /\ pwm2_faults = {}

\* C25: for every tx_len the frame construction writes only inside the
\* 260-byte buffer: no index >= 260 is written by the payload copy or the
\* CRC append, and the built frame length 1 + tx_len + 2 is at most 260
C25_FrameFitsBuffer ==
    /\ build_top < BUFFER_SIZE
    /\ build_pc = "built" =>
           /\ frame_len <= BUFFER_SIZE
           /\ frame_len = 1 + build_tx_len + 2

\* the call has returned on a CRC-valid reply whose PCB is in 0x00..0x3F
LowPcbReplyReturned ==
    /\ pc = "done"
    /\ status = STATUS_HF_TAG_OK
    /\ rx_bits >= 24
    /\ ReplyCrcValid
    /\ At(buffer, 0) \in 0..63

ByteOf(x, j) ==
    IF j >= 8 THEN 0
    ELSE (x[(j \div 2) + 1] \div (IF j % 2 = 1 THEN 256 ELSE 1)) % 256

\* x mod 2^(8*len)
ModBytes(x, len) ==
    [i \in 1..4 |-> IF len >= 2 * i THEN x[i]
                    ELSE IF len = 2 * i - 1 THEN x[i] % 256
                    ELSE 0]

\* C29: for every len in 0..8 and every n, bytes_to_num(dest, len) after
\* num_to_bytes(n, len, dest) is n mod 2^(8*len); num_to_bytes writes
\* exactly dest[0..len-1], big-endian, dest[len-1] the least significant
\* byte of n
C29_BigEndianInverses ==
    /\ conv_pc = "done" => btn_num = ModBytes(conv_n, conv_len)
    /\ conv_pc \in {"converted", "bytes_to_num", "done"} =>
           /\ dest_written = 0..(conv_len - 1)
           /\ \A k \in 0..(conv_len - 1) : dest[k] = ByteOf(conv_n, conv_len - 1 - k)
           /\ \A k \in conv_len..(DestSize - 1) : dest[k] = DestBefore[k]

\* 0x0102030405060708 stored in five bytes and read back as 0x0405060708
C29_Witness ==
    /\ conv_pc = "done"
    /\ conv_n = <<1800, 1286, 772, 258>>
    /\ conv_len = 5
    /\ dest[0] = 4
    /\ dest[4] = 8
    /\ btn_num = <<1800, 1286, 4, 0>>

====
